---- MODULE Spec2Model ----
(***************************************************************************)
(* git-smartmv: a command-line tool that decides whether to use `git mv`   *)
(* or `mv`.  The model follows src/git_smartmv/__init__.py (class Smartmv) *)
(* and src/git_smartmv/file.py (class File).                               *)
(*                                                                         *)
(* A string that denotes a path is modelled as the sequence of its         *)
(* components: "/r1/a.txt" is <<"/", "r1", "a.txt">>, "./b.txt" is         *)
(* <<".", "b.txt">>.  Every other string of a command line ("git", "-C",    *)
(* "mv", "-f", "--verbose") is a one-component sequence, so that a command  *)
(* line is a sequence of strings of one type.                              *)
(***************************************************************************)
EXTENDS Integers, Sequences, FiniteSets, TLC

VARIABLES
    cwd,                    \* os.getcwd(): the directory the tool is started in
    index,                  \* the files registered in the Git indexes
    pc,                     \* the position of main()
    args,                   \* self._args
    cwd_git_toplevel,       \* self._cwd_git_toplevel
    source_paths,           \* self._source_paths
    dest_path,              \* self._dest_path
    dest_git_repo,          \* self._dest_git_repo
    classified_source_paths,\* self._classified_source_paths
    cursor,                 \* the source the loop of step 2 is at
    mv_commands,            \* self._mv_commands (a dict, in insertion order)
    num_files,              \* num_files of step 4
    prompts,                \* number of input() calls of the running confirm()
    answers,                \* what input() has returned, and to which prompt
    executed,               \* the commands subprocess.check_call has run
    errno,                  \* errno of step 5
    exit_code,              \* the exit status of the process, -1 while it runs
    stderr,                 \* the last message printed to sys.stderr
    fcall                   \* the last call on a File object and its result

vars == <<cwd, index, pc, args, cwd_git_toplevel, source_paths, dest_path,
          dest_git_repo, classified_source_paths, cursor, mv_commands,
          num_files, prompts, answers, executed, errno, exit_code, stderr,
          fcall>>

run_vars == <<pc, args, cwd_git_toplevel, source_paths, dest_path,
               dest_git_repo, classified_source_paths, cursor, mv_commands,
               num_files, prompts, answers, executed, errno, exit_code,
               stderr>>

(***************************************************************************)
(* Bounds of the model.                                                    *)
(***************************************************************************)
\* the longest list of positional operands (sources and destination)
MaxOperands == 3
\* input() calls one confirm() may make
MaxPrompts == 2
\* calls of the methods of a File object
MaxCalls == 3

(***************************************************************************)
(* The environment: a file system, two Git work trees and a Git backend.   *)
(***************************************************************************)
R1 == <<"/", "r1">>
R2 == <<"/", "r2">>

\* every entry of the file system, with its kind: a regular file, a
\* directory, a symbolic link to a regular file, a dangling symbolic link,
\* or another entry (a FIFO, a socket, a device)
FS ==
    ( <<"/">>                   :> "dir"
   @@ R1                        :> "dir"
   @@ <<"/", "r1", "a.txt">>    :> "file"
   @@ <<"/", "r1", "b.txt">>    :> "file"
   @@ <<"/", "r1", "ln">>       :> "symlink_file"
   @@ <<"/", "r1", "dead">>     :> "dangling"
   @@ <<"/", "r1", "fifo">>     :> "other"
   @@ <<"/", "r1", "sub">>      :> "dir"
   @@ <<"/", "r1", "sub", "x">> :> "file"
   @@ <<"/", "r1", "sub", "y">> :> "file"
   @@ R2                        :> "dir"
   @@ <<"/", "r2", "c.txt">>    :> "file"
   @@ <<"/", "tmp">>            :> "dir"
   @@ <<"/", "tmp", "a.txt">>   :> "file"
   @@ <<"/", "slow">>           :> "dir"
   @@ <<"/", "odd">>            :> "dir"
   @@ <<"/", "stale">>          :> "dir" )

\* the work trees
Repos == {R1, R2}
\* a directory in which the Git backend does not answer
HangDirs == {<<"/", "slow">>}
\* a directory in which `git rev-parse` succeeds and prints nothing
EmptyOutDirs == {<<"/", "odd">>}
\* a directory in which `git rev-parse` reports a top level that is gone
StaleDirs == {<<"/", "stale">>}
Vanished == <<"/", "vanished">>

\* the files a `git add` can register
Addable == {p \in DOMAIN FS :
               /\ FS[p] \in {"file", "symlink_file"}
               /\ \E r \in Repos : Len(p) > Len(r) /\ SubSeq(p, 1, Len(r)) = r}
\* the index of the runs of the tool
Tracked == {<<"/", "r1", "a.txt">>, <<"/", "r1", "sub", "x">>,
            <<"/", "r2", "c.txt">>}

\* the directories the tool is started in
Cwds == {R1, <<"/">>}

\* the operands of the command line, as typed: the sources
Operands ==
    { <<"a.txt">>, <<".", "b.txt">>, <<"r1", "a.txt">>, <<"/", "r1", "sub">>,
      <<"/", "r2", "c.txt">>, <<"/", "tmp">>, <<"dead">>, <<"fifo">>,
      <<"new">>, <<"/", "slow">> }

\* the operands of the command line, as typed: the destination
DestOperands ==
    { <<"/", "r1", "sub">>, <<"r1", "sub">>, <<".", "new">>,
      <<"/", "r2", "c.txt">>, <<"/", "tmp">>, <<"fifo">> }

\* the paths File objects are made of
FilePaths ==
    Operands \cup DestOperands
    \cup { <<"ln">>, <<"sub", "x">>, <<".", "sub", "y">>,
                    <<"/", "r2">>, <<"/", "odd">>, <<"/", "stale">>,
                    <<"/", "tmp", "a.txt">> }

\* Python's None
None == <<>>

(***************************************************************************)
(* pathlib                                                                 *)
(***************************************************************************)
RECURSIVE DropDots(_)
DropDots(s) ==
    IF s = <<>> THEN <<>>
    ELSE IF Head(s) = "." THEN DropDots(Tail(s))
    ELSE <<Head(s)>> \o DropDots(Tail(s))

\* Path(s): the parts of the path, "." components dropped
Path(s) == DropDots(s)

\* str(path)
str(p) == IF p = <<>> THEN <<".">> ELSE p

\* path.absolute(): the working directory is prepended to a relative path
absolute(p) == IF p # <<>> /\ Head(p) = "/" THEN p ELSE cwd \o p

\* path.parent: the parent of "/" is "/", that of "." is "."
parent(p) == IF p = <<>> \/ p = <<"/">> THEN p ELSE SubSeq(p, 1, Len(p) - 1)

is_symlink(p) ==
    absolute(p) \in DOMAIN FS /\ FS[absolute(p)] \in {"symlink_file", "dangling"}

\* path.exists() follows symbolic links: a dangling link does not exist
exists(p) == absolute(p) \in DOMAIN FS /\ FS[absolute(p)] # "dangling"

is_file(p) ==
    absolute(p) \in DOMAIN FS /\ FS[absolute(p)] \in {"file", "symlink_file"}

is_dir(p) == absolute(p) \in DOMAIN FS /\ FS[absolute(p)] = "dir"

IsUnder(q, p) == Len(q) > Len(p) /\ SubSeq(q, 1, Len(p)) = p

\* source_path.glob("**/*") filtered by `not sub_path.is_dir()`
glob_files(p) == {q \in DOMAIN FS : IsUnder(q, absolute(p)) /\ FS[q] # "dir"}

(***************************************************************************)
(* subprocess and the Git backend                                          *)
(***************************************************************************)
\* the work tree that holds directory d, None when there is none
RepoOf(d) ==
    IF \E r \in Repos : d = r \/ IsUnder(d, r)
    THEN CHOOSE r \in Repos : d = r \/ IsUnder(d, r)
    ELSE None

\* subprocess.check_output(["git", "rev-parse", "--show-toplevel"], cwd=d):
\* what happens ("oserror": the child cannot chdir to d; "hang": the child
\* never ends; "nonzero": CalledProcessError; "ok") and the lines printed
rev_parse(d) ==
    IF ~is_dir(d) THEN [status |-> "oserror", lines |-> <<>>]
    ELSE IF d \in HangDirs THEN [status |-> "hang", lines |-> <<>>]
    ELSE IF d \in EmptyOutDirs THEN [status |-> "ok", lines |-> <<>>]
    ELSE IF d \in StaleDirs THEN [status |-> "ok", lines |-> <<Vanished>>]
    ELSE IF RepoOf(d) = None THEN [status |-> "nonzero", lines |-> <<>>]
    ELSE [status |-> "ok", lines |-> <<RepoOf(d)>>]

\* subprocess.check_call(["git", "-C", root, "ls-files", "--error-unmatch",
\* p], cwd=d): "ok" when p, or a file under p, is in the index of root
ls_files(root, p, d) ==
    IF ~is_dir(d) THEN "oserror"
    ELSE IF /\ root \in Repos
            /\ \E q \in index : (q = p \/ IsUnder(q, p)) /\ IsUnder(q, root)
    THEN "ok"
    ELSE "nonzero"

(***************************************************************************)
(* Smartmv.get_git_toplevel and Smartmv.is_tracked_by_git.  A result is a  *)
(* record: how the call ended ("return", "GitError", "OSError" for an      *)
(* exception no handler of the program catches, "hang" for a call that     *)
(* never returns) and the value returned.                                  *)
(***************************************************************************)
Ret(v) == [how |-> "return", val |-> v]
Raise(e) == [how |-> e, val |-> None]

get_git_toplevel(path) ==
    IF ~exists(path) THEN Raise("GitError")
    ELSE LET abs == absolute(path)
             dir == IF is_file(abs) THEN parent(abs) ELSE abs
             out == rev_parse(dir)
         IN  IF out.status = "oserror" THEN Raise("OSError")
             ELSE IF out.status = "hang" THEN Raise("hang")
             ELSE IF out.status = "nonzero" THEN Raise("GitError")
             ELSE IF out.lines = <<>> THEN Raise("GitError")
             ELSE IF ~exists(Path(out.lines[1])) THEN Raise("GitError")
             ELSE Ret(Path(out.lines[1]))

is_tracked_by_git(path) ==
    LET top == get_git_toplevel(path)
    IN  IF top.how = "GitError" THEN Ret("False")
        ELSE IF top.how # "return" THEN Raise(top.how)
        ELSE LET dir == IF is_file(path) THEN absolute(parent(path))
                        ELSE absolute(path)
                 out == ls_files(top.val, absolute(path), dir)
             IN  IF out = "oserror" THEN Raise("OSError")
                 ELSE IF out = "nonzero" THEN Ret("False")
                 ELSE Ret("True")

(***************************************************************************)
(* File.git_toplevel and File.is_tracked_by_git (src/git_smartmv/file.py)  *)
(***************************************************************************)
File_git_toplevel(path) ==
    IF ~exists(path) THEN Raise("GitError")
    ELSE LET abs == absolute(path)
             dir == IF is_file(abs) THEN parent(abs) ELSE abs
             out == rev_parse(dir)
         IN  IF out.status = "oserror" THEN Raise("OSError")
             ELSE IF out.status = "hang" THEN Raise("hang")
             ELSE IF out.status = "nonzero" THEN Raise("GitError")
             ELSE IF out.lines = <<>> THEN Raise("GitError")
             ELSE IF ~exists(Path(out.lines[1])) THEN Raise("GitError")
             ELSE Ret(Path(out.lines[1]))

\* a variant of File.is_tracked_by_git that keeps the result of the last
\* call on the path
File_is_tracked_cached(path) ==
    IF fcall.op = "is_tracked_by_git" /\ fcall.path = path
    THEN [how |-> fcall.how, val |-> fcall.tracked]
    ELSE is_tracked_by_git(path)

File_is_tracked_by_git(path) ==
    LET top == File_git_toplevel(path)
    IN  IF top.how = "GitError" THEN Ret("False")
        ELSE IF top.how # "return" THEN Raise(top.how)
        ELSE LET dir == IF is_file(path) THEN absolute(parent(path))
                        ELSE absolute(path)
                 out == ls_files(top.val, absolute(path), dir)
             IN  IF out = "oserror" THEN Raise("OSError")
                 ELSE IF out = "nonzero" THEN Ret("False")
                 ELSE Ret("True")

(***************************************************************************)
(* The state after Smartmv() (_reset) and File(path)                       *)
(***************************************************************************)
NoArgs == [files |-> <<>>, verbose |-> FALSE, force |-> FALSE,
           non_interactive |-> FALSE, warning_threshold |-> -1]
NoMessage == [msg |-> "", path |-> <<>>]
NoCall == [n |-> 0, op |-> "", path |-> <<>>, how |-> "", toplevel |-> None,
           tracked |-> ""]

reset ==
    /\ args = NoArgs
    /\ cwd_git_toplevel = None
    /\ source_paths = <<>>
    /\ dest_path = <<>>
    /\ classified_source_paths = [mv |-> <<>>, git_mv |-> <<>>]
    /\ dest_git_repo = None
    /\ mv_commands = <<>>

Init ==
    /\ cwd \in Cwds
    /\ index = Tracked
    /\ pc = "main"
    /\ reset
    /\ cursor = 1
    /\ num_files = 0
    /\ prompts = 0
    /\ answers = <<>>
    /\ executed = <<>>
    /\ errno = 0
    /\ exit_code = -1
    /\ stderr = NoMessage
    /\ fcall = NoCall

(***************************************************************************)
(* The ends of a run                                                       *)
(***************************************************************************)
\* sys.exit(code), after a message on sys.stderr
Exit(code, message) ==
    /\ pc' = "exited"
    /\ exit_code' = code
    /\ stderr' = message

\* an exception nothing catches: Python prints the traceback and exits 1
Crash(exception) ==
    /\ pc' = "crashed"
    /\ exit_code' = 1
    /\ stderr' = [msg |-> exception, path |-> <<>>]

\* a child process that never ends: check_output and check_call are given
\* no timeout and wait for ever
Block ==
    /\ pc' = "blocked"
    /\ UNCHANGED <<exit_code, stderr>>

\* how an exception that no handler of the step catches ends the run
Abort(how) == IF how = "hang" THEN Block ELSE Crash(how)

(***************************************************************************)
(* main(): the lookup of the working directory                             *)
(***************************************************************************)
Main ==
    /\ pc = "main"
    /\ LET top == get_git_toplevel(Path(<<".">>))
       IN  IF top.how \in {"return", "GitError"}
           THEN /\ cwd_git_toplevel' = top.val
                /\ pc' = "parse_args"
                /\ UNCHANGED <<exit_code, stderr>>
           ELSE /\ Abort(top.how)
                /\ UNCHANGED cwd_git_toplevel
    /\ UNCHANGED <<cwd, index, args, source_paths, dest_path, dest_git_repo,
                   classified_source_paths, cursor, mv_commands, num_files,
                   prompts, answers, executed, errno, fcall>>

(***************************************************************************)
(* _parse_args                                                             *)
(***************************************************************************)
\* the positional operands: nothing but a first operand, or sources and a
\* destination
OperandLists ==
    [1..1 -> Operands]
    \cup UNION {{sources \o <<dest>> : sources \in [1..n -> Operands],
                                        dest \in DestOperands} :
                n \in 1..(MaxOperands - 1)}
Thresholds == {-1, 2}

ParseArgs ==
    /\ pc = "parse_args"
    /\ \E files \in OperandLists, v \in BOOLEAN, f \in BOOLEAN,
          p \in BOOLEAN, w \in Thresholds :
          /\ args' = [files |-> files, verbose |-> v, force |-> f,
                      non_interactive |-> p, warning_threshold |-> w]
          /\ IF Len(files) < 2
             THEN Exit(1, [msg |-> "missing destination file operand after",
                           path |-> files[1]])
             ELSE /\ pc' = "step1"
                  /\ UNCHANGED <<exit_code, stderr>>
    /\ UNCHANGED <<cwd, index, cwd_git_toplevel, source_paths, dest_path,
                   dest_git_repo, classified_source_paths, cursor, mv_commands,
                   num_files, prompts, answers, executed, errno, fcall>>

(***************************************************************************)
(* _step1_parse_paths                                                      *)
(***************************************************************************)
\* the sources that are neither a symbolic link nor an existing path
missing_sources(paths) ==
    {k \in 1..Len(paths) : ~(is_symlink(paths[k]) \/ exists(paths[k]))}

Min(S) == CHOOSE k \in S : \A j \in S : k <= j

\* the lookup of the destination: of the destination when it exists, of the
\* parent of its absolute form when it does not
dest_toplevel(dest) ==
    IF exists(dest) THEN get_git_toplevel(dest)
    ELSE get_git_toplevel(parent(absolute(dest)))

Step1 ==
    /\ pc = "step1"
    /\ LET n == Len(args.files)
           sources == [k \in 1..(n - 1) |-> Path(args.files[k])]
           dest == Path(args.files[n])
           top == dest_toplevel(dest)
           missing == missing_sources(sources)
       IN  /\ source_paths' = sources
           /\ dest_path' = dest
           /\ IF Len(sources) > 1 /\ ~is_dir(dest)
              THEN /\ Exit(1, [msg |-> "target is not a directory",
                               path |-> str(dest)])
                   /\ UNCHANGED dest_git_repo
              ELSE IF top.how \notin {"return", "GitError"}
              THEN /\ Abort(top.how)
                   /\ UNCHANGED dest_git_repo
              ELSE /\ dest_git_repo' = top.val
                   /\ IF missing # {}
                      THEN Exit(1, [msg |-> "cannot stat: No such file or directory",
                                    path |-> str(sources[Min(missing)])])
                      ELSE /\ pc' = "step2"
                           /\ UNCHANGED <<exit_code, stderr>>
    /\ UNCHANGED <<cwd, index, args, cwd_git_toplevel, classified_source_paths,
                   cursor, mv_commands, num_files, prompts, answers, executed,
                   errno, fcall>>

(***************************************************************************)
(* _step2_classify_paths: one source per step                              *)
(***************************************************************************)
\* a variant of uses_git_mv that does not compare the repositories
uses_git_mv_any_repo(origin_path_tracked, origin_git_repo) ==
    origin_path_tracked = "True"

\* the source goes to the "git mv" group
uses_git_mv(origin_path_tracked, origin_git_repo) ==
    origin_path_tracked = "True" /\ origin_git_repo = dest_git_repo

\* the source is kept as given, not made absolute
kept_as_given(origin_git_repo) ==
    cwd_git_toplevel # None /\ cwd_git_toplevel = origin_git_repo

Step2 ==
    /\ pc = "step2"
    /\ LET origin_path == source_paths[cursor]
           top == get_git_toplevel(origin_path)
           tracked == IF top.how = "return" THEN is_tracked_by_git(origin_path)
                      ELSE Ret("None")
           uncaught == IF top.how \notin {"return", "GitError"} THEN top.how
                       ELSE IF tracked.how # "return" THEN tracked.how
                       ELSE ""
       IN  IF uncaught # ""
           THEN /\ Abort(uncaught)
                /\ UNCHANGED <<classified_source_paths, cursor>>
           ELSE /\ classified_source_paths' =
                      IF uses_git_mv(tracked.val, top.val)
                      THEN [classified_source_paths EXCEPT !.git_mv =
                               Append(@, IF kept_as_given(top.val)
                                         THEN origin_path
                                         ELSE absolute(origin_path))]
                      ELSE [classified_source_paths EXCEPT !.mv =
                               Append(@, origin_path)]
                /\ cursor' = cursor + 1
                /\ pc' = IF cursor = Len(source_paths) THEN "step3" ELSE "step2"
                /\ UNCHANGED <<exit_code, stderr>>
    /\ UNCHANGED <<cwd, index, args, cwd_git_toplevel, source_paths, dest_path,
                   dest_git_repo, mv_commands, num_files, prompts, answers,
                   executed, errno, fcall>>

(***************************************************************************)
(* _step3_gen_mv_commands                                                  *)
(***************************************************************************)
specify_repo == ~(cwd_git_toplevel # None /\ cwd_git_toplevel = dest_git_repo)

\* commands[cmd_type]: the program and its first arguments
commands(cmd_type) ==
    IF cmd_type = "git mv"
    THEN IF dest_git_repo # None
         THEN <<<<"git">>>>
              \o (IF specify_repo THEN <<<<"-C">>, str(dest_git_repo)>> ELSE <<>>)
              \o <<<<"mv">>, <<"-f">>>>
         ELSE <<<<"git">>, <<"mv">>>>
    ELSE <<<<"mv">>>>

\* the options appended after commands[cmd_type]
option_arguments(cmd_type) ==
    (IF args.verbose THEN <<<<"--verbose">>>> ELSE <<>>)
    \o (IF cmd_type = "mv" /\ args.force THEN <<<<"-f">>>> ELSE <<>>)

classified(cmd_type) ==
    IF cmd_type = "git mv" THEN classified_source_paths.git_mv
    ELSE classified_source_paths.mv

\* a variant of source_arguments that lists the sources from the last one
source_arguments_reversed(cmd_type) ==
    [k \in 1..Len(classified(cmd_type)) |->
        str(classified(cmd_type)[Len(classified(cmd_type)) + 1 - k])]

source_arguments(cmd_type) ==
    [k \in 1..Len(classified(cmd_type)) |-> str(classified(cmd_type)[k])]

\* a variant of dest_argument that never makes the destination absolute
dest_argument_as_given(cmd_type) == str(dest_path)

dest_argument(cmd_type) ==
    IF cmd_type = "git mv"
    THEN IF cwd_git_toplevel # None /\ cwd_git_toplevel = dest_git_repo
         THEN str(dest_path)
         ELSE str(absolute(dest_path))
    ELSE str(dest_path)

mv_command(cmd_type) ==
    commands(cmd_type) \o option_arguments(cmd_type)
    \o source_arguments(cmd_type) \o <<dest_argument(cmd_type)>>

\* the loop over ("git mv", "mv"): a group without a source is skipped
gen_mv_commands ==
    (IF classified("git mv") # <<>>
     THEN <<[cmd_type |-> "git mv", cmd |-> mv_command("git mv")]>> ELSE <<>>)
    \o (IF classified("mv") # <<>>
        THEN <<[cmd_type |-> "mv", cmd |-> mv_command("mv")]>> ELSE <<>>)

Step3 ==
    /\ pc = "step3"
    /\ mv_commands' = gen_mv_commands
    /\ pc' = "step4"
    /\ UNCHANGED <<cwd, index, args, cwd_git_toplevel, source_paths, dest_path,
                   dest_git_repo, classified_source_paths, cursor, num_files,
                   prompts, answers, executed, errno, exit_code, stderr,
                   fcall>>

(***************************************************************************)
(* _step4_warn_if_file_count_exceeds_threshold                             *)
(***************************************************************************)
RECURSIVE count_files(_)
count_files(paths) ==
    IF paths = <<>> THEN 0
    ELSE (IF is_dir(Head(paths)) THEN Cardinality(glob_files(Head(paths)))
          ELSE 1)
         + count_files(Tail(paths))

\* a variant of threshold_reached that asks only above the threshold
threshold_exceeded(n) == n > args.warning_threshold

\* the confirmation of step 4 is asked for
threshold_reached(n) == n >= args.warning_threshold

Step4 ==
    /\ pc = "step4"
    /\ IF args.warning_threshold < 0
       THEN /\ pc' = "step5"
            /\ UNCHANGED num_files
       ELSE /\ num_files' = count_files(source_paths)
            /\ pc' = IF threshold_reached(num_files') THEN "confirm4"
                     ELSE "step5"
    /\ prompts' = 0
    /\ UNCHANGED <<answers, cwd, index, args, cwd_git_toplevel, source_paths,
                   dest_path, dest_git_repo, classified_source_paths, cursor,
                   mv_commands, executed, errno, exit_code, stderr, fcall>>

(***************************************************************************)
(* confirm(): one input() per step                                         *)
(***************************************************************************)
\* what input() gives: a line, an interrupt ("^C"), the end of the input
Answers == {"y", "n", "N", "x", "^C", "EOF"}

lower(answer) ==
    IF answer = "Y" THEN "y" ELSE IF answer = "N" THEN "n" ELSE answer

\* one round of the loop of confirm(), and what its caller does of the result
confirm(answer, confirmed) ==
    /\ prompts < MaxPrompts
    /\ prompts' = prompts + 1
    /\ answers' = Append(answers, [prompt |-> pc, answer |-> answer])
    /\ IF answer = "^C" THEN Exit(1, NoMessage)
       ELSE IF answer = "EOF" THEN Crash("EOFError")
       ELSE IF lower(answer) \notin {"y", "n"}
       THEN UNCHANGED <<pc, exit_code, stderr>>
       ELSE IF lower(answer) = "y"
       THEN /\ pc' = confirmed
            /\ UNCHANGED <<exit_code, stderr>>
       ELSE Exit(1, NoMessage)

Confirm4 ==
    /\ pc = "confirm4"
    /\ \E answer \in Answers : confirm(answer, "step5")
    /\ UNCHANGED <<cwd, index, args, cwd_git_toplevel, source_paths, dest_path,
                   dest_git_repo, classified_source_paths, cursor, mv_commands,
                   num_files, executed, errno, fcall>>

(***************************************************************************)
(* _step5_execute_mv_commands                                              *)
(***************************************************************************)
\* the exit codes of an external command
ExitCodes == {0, 1}

\* the end of main(): sys.exit(errno) when errno is set, a return otherwise
finish(code) ==
    /\ pc' = "exited"
    /\ exit_code' = code

Step5 ==
    /\ pc = "step5"
    /\ pc' = IF ~args.non_interactive THEN "confirm5" ELSE "run"
    /\ prompts' = 0
    /\ UNCHANGED <<answers, cwd, index, args, cwd_git_toplevel, source_paths,
                   dest_path, dest_git_repo, classified_source_paths, cursor,
                   mv_commands, num_files, executed, errno, exit_code, stderr,
                   fcall>>

Confirm5 ==
    /\ pc = "confirm5"
    /\ \E answer \in Answers : confirm(answer, "run")
    /\ UNCHANGED <<cwd, index, args, cwd_git_toplevel, source_paths, dest_path,
                   dest_git_repo, classified_source_paths, cursor, mv_commands,
                   num_files, executed, errno, fcall>>

\* a variant of RunCommand that leaves the loop at the first failure
RunCommandUntilFailure ==
    /\ pc = "run"
    /\ Len(executed) < Len(mv_commands)
    /\ LET k == Len(executed) + 1
       IN  \E rc \in ExitCodes :
              /\ executed' = Append(executed,
                                    [cmd_type |-> mv_commands[k].cmd_type,
                                     cmd |-> mv_commands[k].cmd, rc |-> rc])
              /\ errno' = IF rc # 0 THEN 1 ELSE errno
              /\ stderr' = IF rc # 0
                           THEN [msg |-> "Error: CalledProcessError",
                                 path |-> <<>>]
                           ELSE stderr
              /\ IF k = Len(mv_commands) \/ rc # 0
                 THEN finish(errno')
                 ELSE UNCHANGED <<pc, exit_code>>
    /\ UNCHANGED <<cwd, index, args, cwd_git_toplevel, source_paths, dest_path,
                   dest_git_repo, classified_source_paths, cursor, mv_commands,
                   num_files, prompts, answers, fcall>>

\* one iteration of the loop over self._mv_commands.items(); the last one
\* is followed by the end of main()
RunCommand ==
    /\ pc = "run"
    /\ Len(executed) < Len(mv_commands)
    /\ LET k == Len(executed) + 1
       IN  \E rc \in ExitCodes :
              /\ executed' = Append(executed,
                                    [cmd_type |-> mv_commands[k].cmd_type,
                                     cmd |-> mv_commands[k].cmd, rc |-> rc])
              /\ errno' = IF rc # 0 THEN 1 ELSE errno
              /\ stderr' = IF rc # 0
                           THEN [msg |-> "Error: CalledProcessError",
                                 path |-> <<>>]
                           ELSE stderr
              /\ IF k = Len(mv_commands)
                 THEN finish(errno')
                 ELSE UNCHANGED <<pc, exit_code>>
    /\ UNCHANGED <<cwd, index, args, cwd_git_toplevel, source_paths, dest_path,
                   dest_git_repo, classified_source_paths, cursor, mv_commands,
                   num_files, prompts, answers, fcall>>

(***************************************************************************)
(* The File class on its own, as tests/file.py drives it: a fresh          *)
(* repository, `git add`, and calls of the two methods                     *)
(***************************************************************************)
InitFile ==
    /\ cwd \in Cwds
    /\ index = {}
    /\ pc = "file"
    /\ reset
    /\ cursor = 1
    /\ num_files = 0
    /\ prompts = 0
    /\ answers = <<>>
    /\ executed = <<>>
    /\ errno = 0
    /\ exit_code = -1
    /\ stderr = NoMessage
    /\ fcall = NoCall

\* subprocess.check_call(["git", "add", file]): the file enters the index
GitAdd ==
    /\ \E p \in Addable \ index : index' = index \cup {p}
    /\ UNCHANGED <<cwd, fcall, run_vars>>

FileIsTracked ==
    /\ fcall.n < MaxCalls
    /\ \E path \in FilePaths :
          LET r == File_is_tracked_by_git(Path(path))
          IN  fcall' = [n |-> fcall.n + 1, op |-> "is_tracked_by_git", path |-> Path(path),
                        how |-> r.how, toplevel |-> None,
                        tracked |-> IF r.how = "return" THEN r.val ELSE ""]
    /\ UNCHANGED <<cwd, index, run_vars>>

FileGitToplevel ==
    /\ fcall.n < MaxCalls
    /\ \E path \in FilePaths :
          LET r == File_git_toplevel(Path(path))
          IN  fcall' = [n |-> fcall.n + 1, op |-> "git_toplevel", path |-> Path(path),
                        how |-> r.how, toplevel |-> r.val, tracked |-> ""]
    /\ UNCHANGED <<cwd, index, run_vars>>

NextFile == GitAdd \/ FileIsTracked \/ FileGitToplevel

SpecFile == InitFile /\ [][NextFile]_vars

Next ==
    \/ Main
    \/ ParseArgs
    \/ Step1
    \/ Step2
    \/ Step3
    \/ Step4
    \/ Confirm4
    \/ Step5
    \/ Confirm5
    \/ RunCommand

Spec == Init /\ [][Next]_vars

(***************************************************************************)
(* Properties                                                              *)
(***************************************************************************)
Range(seq) == {seq[k] : k \in 1..Len(seq)}
Absolutes(seq) == [k \in 1..Len(seq) |-> absolute(seq[k])]
Strings(seq) == [k \in 1..Len(seq) |-> str(seq[k])]
Terminated == pc \in {"exited", "crashed"}
AfterStep2 == {"step3", "step4", "confirm4", "step5", "confirm5", "run"}

\* destRepo: the root of dest when dest exists, otherwise of its parent
DestRepo == dest_toplevel(dest_path)

\* locate(s) is a real root, isTracked(s) is true, the root equals destRepo
RepoAware(s) ==
    LET top == get_git_toplevel(s)
        tracked == is_tracked_by_git(s)
    IN  /\ top.how = "return"
        /\ tracked.how = "return" /\ tracked.val = "True"
        /\ DestRepo.how = "return" /\ top.val = DestRepo.val

Plain(s) == ~RepoAware(s)

\* C1: every source the classification has gone through is in exactly one
\* group: in "git mv" (as given or in absolute form) if and only if its root
\* is real, it is tracked and its root is destRepo, in "mv" in every other
\* case; after step 2 every source has been gone through.
C1_ClassifiedInExactlyOneGroup ==
    /\ pc \in {"step2", "step3"} =>
          LET done == SubSeq(source_paths, 1, cursor - 1)
          IN  /\ Absolutes(classified_source_paths.git_mv)
                    = Absolutes(SelectSeq(done, RepoAware))
              /\ classified_source_paths.mv = SelectSeq(done, Plain)
    /\ pc \in AfterStep2 => cursor - 1 = Len(source_paths)

\* an untracked source of the repository of the destination is in "mv",
\* beside a tracked one in "git mv"
C1_Witness ==
    /\ pc = "step3"
    /\ classified_source_paths.git_mv # <<>>
    /\ \E k \in 1..Len(classified_source_paths.mv) :
          LET top == get_git_toplevel(classified_source_paths.mv[k])
          IN  top.how = "return" /\ top.val = dest_git_repo

\* the operands fail the validation of step 1
MissingOperands == missing_sources(source_paths)
BadTarget == Len(source_paths) > 1 /\ ~is_dir(dest_path)

\* C2: when more than one source is given and dest is not a directory, or a
\* source does not exist, no command is ever run, the run does not go past
\* step 1, and it ends with exit code 1 and the message of the failed
\* validation, which names the missing source.
C2_ValidationIsFatal ==
    (source_paths # <<>> /\ (BadTarget \/ MissingOperands # {})) =>
        /\ executed = <<>>
        /\ pc \notin AfterStep2 \cup {"step2"}
        /\ Terminated =>
              /\ exit_code = 1
              /\ \/ BadTarget /\ stderr = [msg |-> "target is not a directory",
                                           path |-> str(dest_path)]
                 \/ /\ stderr.msg = "cannot stat: No such file or directory"
                    /\ \E k \in MissingOperands :
                          stderr.path = str(source_paths[k])

\* the input() answers given to a prompt
AnswersTo(prompt) ==
    {lower(answers[k].answer) : k \in {j \in 1..Len(answers) :
                                          answers[j].prompt = prompt}}

C4_EveryCommandRunsInOrder ==
    /\ Len(executed) <= Len(mv_commands)
    /\ \A k \in 1..Len(executed) :
          /\ executed[k].cmd = mv_commands[k].cmd
          /\ executed[k].cmd_type = mv_commands[k].cmd_type
    /\ \A j, k \in 1..Len(executed) :
          j < k => executed[j].cmd_type = "git mv" /\ executed[k].cmd_type = "mv"
    /\ executed # <<>> => pc \in {"run", "exited"}
    /\ (executed # <<>> /\ pc = "exited") =>
          /\ Len(executed) = Len(mv_commands)
          /\ exit_code = 1 <=> \E k \in 1..Len(executed) : executed[k].rc # 0
          /\ exit_code = 0 <=> \A k \in 1..Len(executed) : executed[k].rc = 0
    /\ (pc = "run" /\ executed = <<>>) => mv_commands # <<>>

\* "git mv" failed and "mv" ran after it
C4_Witness ==
    /\ pc = "exited"
    /\ Len(executed) = 2
    /\ executed[1].cmd_type = "git mv" /\ executed[1].rc # 0
    /\ executed[2].cmd_type = "mv" /\ executed[2].rc = 0
    /\ exit_code = 1

\* C5: the "git mv" command holds the force flag if and only if --force was
\* given, and the verbose flag if and only if --verbose was given.
C5_GitMvFlagsAreTheConfiguredOnes ==
    \A k \in 1..Len(mv_commands) :
       mv_commands[k].cmd_type = "git mv" =>
          /\ <<"-f">> \in Range(mv_commands[k].cmd) <=> args.force
          /\ <<"--verbose">> \in Range(mv_commands[k].cmd) <=> args.verbose

\* the commands of one kind in the plan and its arguments before the paths
CommandsOf(cmd_type) ==
    {k \in 1..Len(mv_commands) : mv_commands[k].cmd_type = cmd_type}
Words == {<<"git">>, <<"-C">>, <<"mv">>, <<"-f">>, <<"--verbose">>}
\* the source arguments of a command: the n arguments before the last one
SourceArguments(cmd, n) == SubSeq(cmd, Len(cmd) - n, Len(cmd) - 1)
Last(seq) == seq[Len(seq)]

\* C6: when the commands have been built, a group without a source has no command
\* and a group with sources has one; its arguments end with the sources of
\* the group, which are those of the command line that belong to the group,
\* in the order of the command line, and then the destination; there are one
\* or two commands, "git mv" first.
C6_CommandArgumentsFollowTheGroups ==
    pc = "step4" =>
       /\ \A t \in {"git mv", "mv"} :
             /\ Cardinality(CommandsOf(t)) = IF classified(t) = <<>> THEN 0 ELSE 1
             /\ \A k \in CommandsOf(t) :
                   LET cmd == mv_commands[k].cmd
                       n == Len(classified(t))
                   IN  /\ Len(cmd) > n + 1
                       /\ SourceArguments(cmd, n) = Strings(classified(t))
                       /\ Absolutes(SourceArguments(cmd, n))
                             = Absolutes(SelectSeq(source_paths,
                                   LAMBDA s : (t = "git mv") = RepoAware(s)))
                       /\ Last(cmd) \in {str(dest_path), str(absolute(dest_path))}
                       /\ \A j \in 1..(Len(cmd) - n - 1) :
                             cmd[j] \in Words \cup {str(dest_git_repo)}
       /\ Len(mv_commands) \in {1, 2}
       /\ Len(mv_commands) = 2 => mv_commands[1].cmd_type = "git mv"

\* two different sources in "git mv", in the order of the command line
C6_Witness ==
    /\ pc = "step4"
    /\ Len(classified_source_paths.git_mv) = 2
    /\ source_paths[1] # source_paths[2]
    /\ Len(mv_commands) = 1

\* a call of a method of File happens in this step
FileCalled(op) == fcall'.n # fcall.n /\ fcall'.op = op

\* C7: a call of is_tracked_by_git on a file of a repository returns true
\* exactly when the file is in the index at the time of the call, whatever
\* earlier calls returned; two calls of git_toplevel on a path return the
\* same, whatever was registered between them; no call changes the index.
C7_TrackedReflectsTheIndex ==
    [][ /\ (fcall'.n # fcall.n) => index' = index
        /\ (FileCalled("git_toplevel") /\ fcall.op = "git_toplevel"
            /\ fcall'.path = fcall.path) =>
              fcall'.how = fcall.how /\ fcall'.toplevel = fcall.toplevel
        /\ (FileCalled("is_tracked_by_git")
            /\ absolute(fcall'.path) \in Addable) =>
              /\ fcall'.how = "return"
              /\ fcall'.tracked = "True" <=> absolute(fcall'.path) \in index
      ]_vars

\* a call on a registered file has returned true in a repository that
\* began empty
C7_Witness ==
    /\ pc = "file"
    /\ fcall.op = "is_tracked_by_git"
    /\ fcall.how = "return" /\ fcall.tracked = "True"
    /\ absolute(fcall.path) \in index
    /\ index # Addable

\* the source operands as typed, and those of them of a group
TypedSources == SubSeq(args.files, 1, Len(args.files) - 1)
TypedDest == Last(args.files)
TypedRepoAware(operand) == RepoAware(Path(operand))
TypedPlain(operand) == Plain(Path(operand))
CwdRepoIsDestRepo ==
    LET top == get_git_toplevel(Path(<<".">>))
    IN  top.how = "return" /\ DestRepo.how = "return" /\ top.val = DestRepo.val
HasOverride(cmd) ==
    \E j \in 1..(Len(cmd) - 1) : cmd[j] = <<"-C">> /\ cmd[j + 1] = DestRepo.val

\* what C8 states of the paths of the commands, `given` being the form in
\* which a path is passed when it is not made absolute
PathArguments(given(_)) ==
    pc = "step4" =>
       /\ \A k \in CommandsOf("git mv") :
             LET cmd == mv_commands[k].cmd
                 typed == SelectSeq(TypedSources, TypedRepoAware)
                 n == Len(typed)
             IN  IF CwdRepoIsDestRepo
                 THEN /\ <<"-C">> \notin Range(cmd)
                      /\ SourceArguments(cmd, n) = [j \in 1..n |-> given(typed[j])]
                      /\ Last(cmd) = given(TypedDest)
                 ELSE /\ HasOverride(cmd)
                      /\ SourceArguments(cmd, n)
                            = [j \in 1..n |-> absolute(Path(typed[j]))]
                      /\ Last(cmd) = absolute(Path(TypedDest))
                      /\ \A j \in (Len(cmd) - n)..Len(cmd) : Head(cmd[j]) = "/"
       /\ \A k \in CommandsOf("mv") :
             LET cmd == mv_commands[k].cmd
                 typed == SelectSeq(TypedSources, TypedPlain)
                 n == Len(typed)
             IN  /\ SourceArguments(cmd, n) = [j \in 1..n |-> given(typed[j])]
                 /\ Last(cmd) = given(TypedDest)

AsTyped(operand) == operand
Normalised(operand) == str(Path(operand))

\* C8 as stated: without override the paths of "git mv" are passed exactly
\* as supplied, with the override (set to destRepo) in absolute form; "mv"
\* passes its paths exactly as supplied.
C8_PathsExactlyAsSupplied == PathArguments(AsTyped)

\* C8 as amended: "as supplied" is the operand after the normalisation of
\* pathlib (its "." components dropped), neither made absolute nor resolved.
C8_PathsAsSuppliedNormalised == PathArguments(Normalised)

\* a plan with the override in "git mv" and a "mv" command beside it
C8_Witness ==
    /\ pc = "step4"
    /\ Len(mv_commands) = 2
    /\ ~CwdRepoIsDestRepo
    /\ HasOverride(mv_commands[1].cmd)

\* C9: no failure of a lookup or of a tracking check aborts the run or is
\* shown: the run never ends on an exception of a lookup, and after step 2
\* every source whose lookup did not succeed is in the "mv" group.
C9_LookupFailuresAreAbsorbed ==
    /\ ~(pc = "crashed" /\ stderr.msg = "OSError")
    /\ pc \in AfterStep2 =>
          \A k \in 1..Len(source_paths) :
             get_git_toplevel(source_paths[k]).how # "return" =>
                source_paths[k] \in Range(classified_source_paths.mv)

\* C10: no lookup or tracking check waits for ever on the backend: a call
\* whose backend does not answer is cut off and the run goes on.
C10_LookupsTerminate == pc # "blocked"

====

